---- MODULE Spec2Model ----
(***************************************************************************)
(* A model of cmd/myclinic-backup/myclinic-backup.go: the backup pipeline  *)
(* of main() (dump with mysqldump, compress-and-encrypt, upload to S3),    *)
(* its dry-run and --env modes, and the pure path/key derivation.          *)
(*                                                                         *)
(* Texts (paths, environment values, error messages) are sequences of      *)
(* one-character strings, so that formatting, the regular expression and   *)
(* filepath.Clean/Split/Dir are computed character by character.  A fixed  *)
(* literal of a message may appear as one multi-character chunk.           *)
(* The model is of the Unix build: filepath.Separator is "/", so           *)
(* filepath.ToSlash is the identity.                                       *)
(***************************************************************************)
EXTENDS Integers, Sequences, FiniteSets, TLC

VARIABLES
    env,            \* the process environment: variable name -> text ("" when unset)
    clock,          \* the wall clock read by time.Now()
    ticks,          \* how many times the wall clock has advanced
    dirs,           \* directories created by os.MkdirAll
    files,          \* the local file system: path -> content
    s3,             \* the bucket objects: <<region, bucket, key>> -> content
    pc,             \* per process: position in main()
    dryRun,         \* per process: the -dry-run flag
    printEnv,       \* per process: the -env flag
    now,            \* per process: main's `now`
    backupFile,     \* per process: main's `backupFile`
    encryptedFile,  \* per process: main's `encryptedFile`
    encKey,         \* per process: main's inner `key` (the key bytes)
    plain,          \* per process: encryptBackupFile's `in`
    enc,            \* per process: encryptBackupFile's `enc`
    region,         \* per process: main's `region`
    bucket,         \* per process: main's `bucket`
    s3key,          \* per process: main's outer `key`
    stdout,         \* per process: the Printf calls made on os.Stdout
    stderr,         \* per process: the diagnostics written on os.Stderr
    exitCode,       \* per process: the exit status (NotExited while running)
    trace           \* per process: the calls made to the outside world, in order

vars == <<env, clock, ticks, dirs, files, s3, pc, dryRun, printEnv, now,
          backupFile, encryptedFile, encKey, plain, enc, region, bucket,
          s3key, stdout, stderr, exitCode, trace>>

(***************************************************************************)
(* Bounds of the model.                                                    *)
(***************************************************************************)
MaxTicks == 1          \* advances of the wall clock during one behaviour
MaxExitCode == 11      \* mysqldump exit codes are drawn from 0..MaxExitCode

(***************************************************************************)
(* The environment variable names.                                         *)
(***************************************************************************)
mysqlUserEnvVar == "MYCLINIC_DB_USER"
mysqlPassEnvVar == "MYCLINIC_DB_PASS"
backupDirEnvVar == "MYCLINIC_BACKUP_DIR"
encryptedBackupDirEnvVar == "MYCLINIC_BACKUP_ENCRYPTED_DIR"
encryptionKey == "MYCLINIC_BACKUP_ENCRYPTION_KEY"
s3BackupRegionEnvVar == "MYCLINIC_BACKUP_S3_REGION"
s3BackupBucketEnvVar == "MYCLINIC_BACKUP_S3_BUCKET"

EnvVars == {mysqlUserEnvVar, mysqlPassEnvVar, backupDirEnvVar,
            encryptedBackupDirEnvVar, encryptionKey, s3BackupRegionEnvVar,
            s3BackupBucketEnvVar}

(***************************************************************************)
(* Texts.                                                                  *)
(***************************************************************************)
DigitChars == <<"0", "1", "2", "3", "4", "5", "6", "7", "8", "9">>

WordChars ==
    {DigitChars[i] : i \in 1..10} \cup
    {"a", "b", "c", "d", "e", "f", "g", "h", "i", "j", "k", "l", "m", "n",
     "o", "p", "q", "r", "s", "t", "u", "v", "w", "x", "y", "z",
     "A", "B", "C", "D", "E", "F", "G", "H", "I", "J", "K", "L", "M", "N",
     "O", "P", "Q", "R", "S", "T", "U", "V", "W", "X", "Y", "Z", "_"}

\* %d of a non-negative integer
RECURSIVE Itoa(_)
Itoa(n) ==
    IF n < 10 THEN <<DigitChars[n + 1]>>
    ELSE Itoa(n \div 10) \o <<DigitChars[(n % 10) + 1]>>

\* a field written without zero padding
PadNone(n, w) == Itoa(n)

\* a field of time.Format: n in at least w digits, zero padded
RECURSIVE Pad(_, _)
Pad(n, w) ==
    IF w = 0 THEN (IF n = 0 THEN <<>> ELSE Itoa(n))
    ELSE Pad(n \div 10, w - 1) \o <<DigitChars[(n % 10) + 1]>>

\* strings.Contains on texts
Contains(text, sub) ==
    \E i \in 1..(Len(text) - Len(sub) + 1) :
        SubSeq(text, i, i + Len(sub) - 1) = sub

\* the largest index of c in text, 0 when there is none
LastIndex(text, c) ==
    IF \E i \in 1..Len(text) : text[i] = c
    THEN CHOOSE i \in 1..Len(text) :
             /\ text[i] = c
             /\ \A j \in (i + 1)..Len(text) : text[j] # c
    ELSE 0

(***************************************************************************)
(* path/filepath on Unix.                                                  *)
(***************************************************************************)
\* the "/"-separated elements of text, empty ones included
RECURSIVE Elements(_)
Elements(text) ==
    IF \E i \in 1..Len(text) : text[i] = "/"
    THEN LET i == CHOOSE k \in 1..Len(text) :
                      /\ text[k] = "/"
                      /\ \A j \in 1..(k - 1) : text[j] # "/"
         IN <<SubSeq(text, 1, i - 1)>> \o Elements(SubSeq(text, i + 1, Len(text)))
    ELSE <<text>>

\* the lexical processing of filepath.Clean: drop empty and "." elements,
\* let ".." remove the element before it (or vanish at the root)
RECURSIVE CleanElements(_, _, _)
CleanElements(elems, out, rooted) ==
    IF elems = <<>> THEN out
    ELSE LET e == Head(elems)
             rest == Tail(elems)
         IN IF e = <<>> \/ e = <<".">>
            THEN CleanElements(rest, out, rooted)
            ELSE IF e = <<".", ".">>
            THEN IF out # <<>> /\ out[Len(out)] # <<".", ".">>
                 THEN CleanElements(rest, SubSeq(out, 1, Len(out) - 1), rooted)
                 ELSE IF rooted
                 THEN CleanElements(rest, out, rooted)
                 ELSE CleanElements(rest, Append(out, e), rooted)
            ELSE CleanElements(rest, Append(out, e), rooted)

RECURSIVE Join(_)
Join(elems) ==
    IF elems = <<>> THEN <<>>
    ELSE IF Len(elems) = 1 THEN elems[1]
    ELSE elems[1] \o <<"/">> \o Join(Tail(elems))

Clean(path) ==
    IF path = <<>> THEN <<".">>
    ELSE LET rooted == path[1] = "/"
             body == Join(CleanElements(Elements(path), <<>>, rooted))
             res == (IF rooted THEN <<"/">> ELSE <<>>) \o body
         IN IF res = <<>> THEN <<".">> ELSE res

ToSlash(path) == path

\* filepath.Split: <<dir, file>>, dir keeps its trailing separator
Split(path) ==
    LET i == LastIndex(path, "/")
    IN <<SubSeq(path, 1, i), SubSeq(path, i + 1, Len(path))>>

Dir(path) == Clean(Split(path)[1])

\* the directories os.MkdirAll(dir) makes sure exist: dir and its ancestors
MkdirAllDirs(dir) ==
    {SubSeq(dir, 1, i) : i \in {k \in 1..Len(dir) :
                                   /\ dir[k] # "/"
                                   /\ (k = Len(dir) \/ dir[k + 1] = "/")}}

(***************************************************************************)
(* The path deriver.                                                       *)
(***************************************************************************)
\* a month directory formatted without the dash
dirPartCompact(dateTime) ==
    Pad(dateTime.year, 4) \o Pad(dateTime.month, 2)

dirPart(dateTime) ==
    Pad(dateTime.year, 4) \o <<"-">> \o Pad(dateTime.month, 2)

\* a file name that also carries the seconds
filePartSeconds(dateTime) ==
    <<"d", "u", "m", "p", "-">>
    \o Pad(dateTime.year, 4) \o Pad(dateTime.month, 2) \o Pad(dateTime.day, 2)
    \o Pad(dateTime.hour, 2) \o Pad(dateTime.min, 2) \o Pad(dateTime.sec, 2)
    \o <<".", "s", "q", "l">>

filePart(dateTime) ==
    <<"d", "u", "m", "p", "-">>
    \o Pad(dateTime.year, 4) \o Pad(dateTime.month, 2) \o Pad(dateTime.day, 2)
    \o Pad(dateTime.hour, 2) \o Pad(dateTime.min, 2)
    \o <<".", "s", "q", "l">>

\* a pattern (.*)(\.(\w+))$, which also folds an extension with nothing
\* in front of it
encryptedBackupResultAnyStem(src) ==
    LET k == LastIndex(src, ".")
    IN IF /\ k > 0
          /\ k < Len(src)
          /\ \A j \in (k + 1)..Len(src) : src[j] \in WordChars
       THEN SubSeq(src, 1, k - 1) \o <<"-">> \o SubSeq(src, k + 1, Len(src))
            \o <<".", "c", "f">>
       ELSE src

\* regexp (.+)(\.(\w+))$ replaced by $1-$3.cf: the greedy (.+) stops at the
\* last dot, which must be followed by word characters up to the end and
\* preceded by a character that is no newline
encryptedBackupResult(src) ==
    LET k == LastIndex(src, ".")
    IN IF /\ k > 1
          /\ k < Len(src)
          /\ src[k - 1] # "\n"
          /\ \A j \in (k + 1)..Len(src) : src[j] \in WordChars
       THEN SubSeq(src, 1, k - 1) \o <<"-">> \o SubSeq(src, k + 1, Len(src))
            \o <<".", "c", "f">>
       ELSE src

createBackupFilePath(dir, dateTime) ==
    Clean(ToSlash(dir \o <<"/">> \o dirPart(dateTime) \o <<"/">> \o filePart(dateTime)))

\* a key that keeps the whole parent directory
createS3KeyWholeDir(file) ==
    Clean(Split(file)[1] \o <<".">>) \o <<"/">> \o Split(file)[2]

createS3Key(file) ==
    LET dir == Split(file)[1]
        base == Split(file)[2]
        dirbase == Split(Clean(dir \o <<".">>))[2]
    IN dirbase \o <<"/">> \o base

(***************************************************************************)
(* Values of the state.                                                    *)
(***************************************************************************)
Procs == DOMAIN pc

NotExited == -1        \* exitCode of a process that is still running

\* the status of os.Exit(1) in getenv and in main
ExitFailure == 1

\* the status of a Go program that ends by an uncaught panic
PanicExitStatus == 2

\* the status of a Go program whose main returns
ExitSuccess == 0

NoTime == [year |-> 0, month |-> 0, day |-> 0, hour |-> 0, min |-> 0, sec |-> 0]

NoText == <<>>

\* a nil error; an error is modelled by the text its Error() returns
NoError == <<>>

\* file contents: what wrote them and, for a ciphertext, from which plaintext
Content(kind, by, srcKind, srcBy) ==
    [kind |-> kind, by |-> by, srcKind |-> srcKind, srcBy |-> srcBy]

Nil == Content("nil", 0, "", 0)             \* a nil byte slice

Stale == Content("stale", 0, "", 0)         \* a file left by an earlier run

KeyBytes == "key"

NoKey == ""

Line(fmt, args) == [fmt |-> fmt, args |-> args]

Event(op, arg, res, code) == [op |-> op, arg |-> arg, res |-> res, code |-> code]

EmptyMap == [x \in {} |-> Nil]

\* a write that leaves no other entry behind
PutAlone(f, k, v) == [x \in {k} |-> v]

Put(f, k, v) == [x \in DOMAIN f \cup {k} |-> IF x = k THEN v ELSE f[x]]

(***************************************************************************)
(* The wall clock.                                                         *)
(***************************************************************************)
TickSeconds == 30      \* the wall clock advances in steps of this many seconds

IsLeap(y) == (y % 4 = 0 /\ y % 100 # 0) \/ y % 400 = 0

DaysIn(y, m) ==
    IF m = 2 THEN (IF IsLeap(y) THEN 29 ELSE 28)
    ELSE IF m \in {4, 6, 9, 11} THEN 30 ELSE 31

NextMinute(t) ==
    IF t.min < 59 THEN [t EXCEPT !.min = @ + 1]
    ELSE IF t.hour < 23 THEN [t EXCEPT !.min = 0, !.hour = @ + 1]
    ELSE IF t.day < DaysIn(t.year, t.month)
    THEN [t EXCEPT !.min = 0, !.hour = 0, !.day = @ + 1]
    ELSE IF t.month < 12
    THEN [t EXCEPT !.min = 0, !.hour = 0, !.day = 1, !.month = @ + 1]
    ELSE [t EXCEPT !.min = 0, !.hour = 0, !.day = 1, !.month = 1, !.year = @ + 1]

RECURSIVE Advance(_, _)
Advance(t, seconds) ==
    IF t.sec + seconds < 60 THEN [t EXCEPT !.sec = @ + seconds]
    ELSE Advance(NextMinute([t EXCEPT !.sec = 0]), t.sec + seconds - 60)

StartTimes ==
    {[year |-> 2024, month |-> 1, day |-> 15, hour |-> 9, min |-> 30, sec |-> 0],
     [year |-> 2023, month |-> 12, day |-> 31, hour |-> 23, min |-> 59, sec |-> 40]}

(***************************************************************************)
(* The environments and the initial states.                                *)
(***************************************************************************)
DirValues ==
    {<<"/", "b">>,
     <<"e", ".", "d", "/", "/", "x", "/", ".", ".", "/">>}

ValueOf(name) ==
    CASE name = mysqlUserEnvVar -> <<"u">>
      [] name = mysqlPassEnvVar -> <<"p", "w">>
      [] name = encryptionKey -> <<"/", "k">>
      [] name = s3BackupRegionEnvVar -> <<"r", "-", "1">>
      [] name = s3BackupBucketEnvVar -> <<"b", "k", "t">>

\* every variable is unset (os.Getenv gives "") or set
Envs ==
    {e \in [EnvVars -> DirValues \cup {NoText} \cup
                       {ValueOf(n) : n \in EnvVars \ {backupDirEnvVar, encryptedBackupDirEnvVar}}] :
        \A n \in EnvVars :
            \/ e[n] = NoText
            \/ IF n \in {backupDirEnvVar, encryptedBackupDirEnvVar}
               THEN e[n] \in DirValues
               ELSE e[n] = ValueOf(n)}

FullEnvs == {e \in Envs : \A n \in EnvVars : e[n] # NoText}

\* the local files before the run: none, or a file of an earlier run at the
\* path this run derives for its encrypted file
InitialFiles(e, t) ==
    {EmptyMap} \cup
    (IF e[encryptedBackupDirEnvVar] = NoText THEN {}
     ELSE {Put(EmptyMap,
               encryptedBackupResult(createBackupFilePath(e[encryptedBackupDirEnvVar], t)),
               Stale)})

InitProcs(P) ==
    /\ ticks = 0
    /\ dirs = {}
    /\ s3 = EmptyMap
    /\ pc = [p \in P |-> "start"]
    /\ now = [p \in P |-> NoTime]
    /\ backupFile = [p \in P |-> NoText]
    /\ encryptedFile = [p \in P |-> NoText]
    /\ encKey = [p \in P |-> NoKey]
    /\ plain = [p \in P |-> Nil]
    /\ enc = [p \in P |-> Nil]
    /\ region = [p \in P |-> NoText]
    /\ bucket = [p \in P |-> NoText]
    /\ s3key = [p \in P |-> NoText]
    /\ stdout = [p \in P |-> <<>>]
    /\ stderr = [p \in P |-> <<>>]
    /\ exitCode = [p \in P |-> NotExited]
    /\ trace = [p \in P |-> <<>>]

\* one invocation, with any flags, environment and start time
Init ==
    /\ env \in Envs
    /\ clock \in StartTimes
    /\ files \in InitialFiles(env, clock)
    /\ dryRun \in [{1} -> BOOLEAN]
    /\ printEnv \in [{1} -> BOOLEAN]
    /\ InitProcs({1})

(***************************************************************************)
(* Pieces shared by the steps of main().                                   *)
(***************************************************************************)
shared == <<env, clock, ticks>>
flags == <<dryRun, printEnv>>
disk == <<dirs, files>>
paths == <<backupFile, encryptedFile>>
crypt == <<encKey, plain, enc>>
target == <<region, bucket, s3key>>

At(p, label) == pc[p] = label

Goto(p, label) ==
    /\ pc' = [pc EXCEPT ![p] = label]
    /\ UNCHANGED exitCode

\* os.Exit(status), a panic, or the return of main
Exit(p, status) ==
    /\ pc' = [pc EXCEPT ![p] = "exited"]
    /\ exitCode' = [exitCode EXCEPT ![p] = status]

Printf(p, fmt, args) == stdout' = [stdout EXCEPT ![p] = Append(@, Line(fmt, args))]

Fprintf(p, fmt, args) == stderr' = [stderr EXCEPT ![p] = Append(@, Line(fmt, args))]

Call(p, op, arg, res, code) ==
    trace' = [trace EXCEPT ![p] = Append(@, Event(op, arg, res, code))]

\* a build in which no step is guarded by the flag
IsDryRunNever(p) == FALSE

\* a build in which the dump step is not guarded by the flag
IsDryRunAfterDump(p) == dryRun[p] /\ pc[p] # "getBackupDir"

\* `*dryRun`, as tested by main before each side-effecting step
IsDryRun(p) == dryRun[p]

\* a build that ignores -env
PrintEnvIgnored(p) == FALSE

\* `*printEnv`, as tested by main after flag.Parse
PrintEnvSelected(p) == printEnv[p]

\* a getenv that accepts an empty value
getenvAcceptsEmpty(value) == FALSE

\* getenv's test of the value os.Getenv returned
getenvMissing(value) == value = NoText

\* a getenv whose message does not name the variable
getenvFatalUnnamed(p, name) ==
    /\ Call(p, "os.Getenv", <<name>>, "empty", 0)
    /\ Fprintf(p, "cannot get env var", <<>>)
    /\ Exit(p, ExitFailure)

\* getenv(name) when the variable is unset or empty: the message, os.Exit(1)
getenvFatal(p, name) ==
    /\ Call(p, "os.Getenv", <<name>>, "empty", 0)
    /\ Fprintf(p, "cannot get env var %s", <<<<name>>>>)
    /\ Exit(p, ExitFailure)

\* an uncaught panic(err): the runtime prints the error and a goroutine
\* trace on the error stream and the process ends with status 2
Panic(p, err) ==
    /\ Fprintf(p, "panic: %v\n\ngoroutine 1 [running]:\n", <<err>>)
    /\ Exit(p, PanicExitStatus)

(***************************************************************************)
(* main(): flags, timestamp, plaintext path.                               *)
(***************************************************************************)
envReference ==
    "\nMYCLINIC_DB_USER -- database user\nMYCLINIC_DB_PASS -- database password\nMYCLINIC_BACKUP_DIR -- directory to store plain SQL backup file\nMYCLINIC_BACKUP_ENCRYPTED_DIR -- directory to store encrypted SQL backup file\nMYCLINIC_BACKUP_ENCRYPTION_KEY -- path to encryption key file\nMYCLINIC_BACKUP_S3_REGION -- S3 region\nMYCLINIC_BACKUP_S3_BUCKET -- S3 bucket\n"

\* flag.Parse; with -env print the reference and return; else now := time.Now()
Start(p) ==
    /\ At(p, "start")
    /\ IF PrintEnvSelected(p)
       THEN /\ Printf(p, envReference, <<>>)
            /\ Exit(p, ExitSuccess)
            /\ UNCHANGED <<now, trace>>
       ELSE /\ now' = [now EXCEPT ![p] = clock]
            /\ Call(p, "time.Now", NoText, "ok", 0)
            /\ Goto(p, "getBackupDir")
            /\ UNCHANGED stdout
    /\ UNCHANGED <<shared, flags, disk, s3, paths, crypt, target, stderr>>

\* a main that reads the wall clock again for the plaintext path
dumpPathTimeReread(p) == clock

\* the timestamp from which main derives the plaintext path
dumpPathTime(p) == now[p]

\* backupDir := getenv(...); backupFile := createBackupFilePath(backupDir, now)
GetBackupDir(p) ==
    /\ At(p, "getBackupDir")
    /\ IF getenvMissing(env[backupDirEnvVar])
       THEN /\ getenvFatal(p, backupDirEnvVar)
            /\ UNCHANGED backupFile
       ELSE /\ Call(p, "os.Getenv", <<backupDirEnvVar>>, "ok", 0)
            /\ backupFile' = [backupFile EXCEPT ![p] =
                                 createBackupFilePath(env[backupDirEnvVar], dumpPathTime(p))]
            /\ Goto(p, IF IsDryRun(p) THEN "printBackup" ELSE "dumpMkdir")
            /\ UNCHANGED stderr
    /\ UNCHANGED <<shared, flags, disk, s3, now, encryptedFile, crypt, target, stdout>>

(***************************************************************************)
(* dumpMysql(backupFile), and main's handling of its error.                *)
(***************************************************************************)
\* main: "mysql backup failed: %v\n" on the error stream, os.Exit(1)
dumpFailed(p, err) ==
    /\ Fprintf(p, "mysql backup failed: %v\n", <<err>>)
    /\ Exit(p, ExitFailure)

\* os.MkdirAll(filepath.Dir(backupFile), 0755)
DumpMkdir(p) ==
    /\ At(p, "dumpMkdir")
    /\ \E ok \in BOOLEAN :
        IF ok
        THEN /\ Call(p, "os.MkdirAll", Dir(backupFile[p]), "ok", 0)
             /\ dirs' = dirs \cup MkdirAllDirs(Dir(backupFile[p]))
             /\ Goto(p, "dumpUser")
             /\ UNCHANGED stderr
        ELSE /\ Call(p, "os.MkdirAll", Dir(backupFile[p]), "err", 0)
             /\ dumpFailed(p, <<"mkdir: permission denied">>)
             /\ UNCHANGED dirs
    /\ UNCHANGED <<shared, flags, files, s3, now, paths, crypt, target, stdout>>

\* user := getenv(mysqlUserEnvVar)
DumpUser(p) ==
    /\ At(p, "dumpUser")
    /\ IF getenvMissing(env[mysqlUserEnvVar])
       THEN getenvFatal(p, mysqlUserEnvVar)
       ELSE /\ Call(p, "os.Getenv", <<mysqlUserEnvVar>>, "ok", 0)
            /\ Goto(p, "dumpPass")
            /\ UNCHANGED stderr
    /\ UNCHANGED <<shared, flags, disk, s3, now, paths, crypt, target, stdout>>

\* pass := getenv(mysqlPassEnvVar)
DumpPass(p) ==
    /\ At(p, "dumpPass")
    /\ IF getenvMissing(env[mysqlPassEnvVar])
       THEN getenvFatal(p, mysqlPassEnvVar)
       ELSE /\ Call(p, "os.Getenv", <<mysqlPassEnvVar>>, "ok", 0)
            /\ Goto(p, "dumpRun")
            /\ UNCHANGED stderr
    /\ UNCHANGED <<shared, flags, disk, s3, now, paths, crypt, target, stdout>>

\* exec.Cmd.Run: an error when the command cannot be started, an
\* *exec.ExitError ("exit status N") when it exits with a non-zero status
cmdRunErr(launched, code) ==
    IF ~launched
    THEN <<"exec: \"mysqldump\": executable file not found in $PATH">>
    ELSE IF code # 0
    THEN <<"e", "x", "i", "t", " ", "s", "t", "a", "t", "u", "s", " ">> \o Itoa(code)
    ELSE NoError

\* a dumpMysql that only reports a command that could not be started
dumpMysqlErrLaunchOnly(launched, code) ==
    IF ~launched THEN cmdRunErr(launched, code) ELSE NoError

\* the error dumpMysql returns once the command was built
dumpMysqlErr(launched, code) ==
    IF cmdRunErr(launched, code) # NoError
    THEN cmdRunErr(launched, code)
    ELSE IF code # 0
    THEN <<"mysqldump failed with exit code: ">> \o Itoa(code)
    ELSE NoError

\* cmd.Run() of mysqldump with --result-file=backupFile
DumpRun(p) ==
    /\ At(p, "dumpRun")
    /\ \E launched \in BOOLEAN, code \in 0..MaxExitCode, wrote \in BOOLEAN :
        /\ ~launched => (code = 0 /\ ~wrote)
        /\ (launched /\ code = 0) => wrote
        /\ Call(p, "mysqldump", backupFile[p],
                IF launched THEN "exit" ELSE "nolaunch", code)
        /\ files' = IF wrote
                    THEN Put(files, backupFile[p],
                             Content(IF code = 0 THEN "dump" ELSE "partial", p, "", 0))
                    ELSE files
        /\ IF dumpMysqlErr(launched, code) # NoError
           THEN dumpFailed(p, dumpMysqlErr(launched, code))
           ELSE Goto(p, "printBackup") /\ UNCHANGED stderr
    /\ UNCHANGED <<shared, flags, dirs, s3, now, paths, crypt, target, stdout>>

\* fmt.Printf("database backed up to %s\n", backupFile)
PrintBackup(p) ==
    /\ At(p, "printBackup")
    /\ Printf(p, "database backed up to %s\n", <<backupFile[p]>>)
    /\ Goto(p, "getEncDir")
    /\ UNCHANGED <<shared, flags, disk, s3, now, paths, crypt, target, stderr, trace>>

(***************************************************************************)
(* main(): encrypted path, key, encryptBackupFile.                         *)
(***************************************************************************)
\* a main that reads the wall clock again for the encrypted path
encPathTimeReread(p) == clock

\* the timestamp from which main derives the encrypted path
encPathTime(p) == now[p]

\* encryptedBackupDir := getenv(...); encSrc; encryptedFile
GetEncDir(p) ==
    /\ At(p, "getEncDir")
    /\ IF getenvMissing(env[encryptedBackupDirEnvVar])
       THEN /\ getenvFatal(p, encryptedBackupDirEnvVar)
            /\ UNCHANGED encryptedFile
       ELSE /\ Call(p, "os.Getenv", <<encryptedBackupDirEnvVar>>, "ok", 0)
            /\ encryptedFile' = [encryptedFile EXCEPT ![p] =
                   encryptedBackupResult(
                       createBackupFilePath(env[encryptedBackupDirEnvVar], encPathTime(p)))]
            /\ Goto(p, IF IsDryRun(p) THEN "printEnc" ELSE "getKey")
            /\ UNCHANGED stderr
    /\ UNCHANGED <<shared, flags, disk, s3, now, backupFile, crypt, target, stdout>>

\* getEncryptionKey's error for an empty key path
keyPathErr == <<"Cannot get key path from $", encryptionKey>>

\* key, err := getEncryptionKey(); if err != nil { panic(err) }
GetKey(p) ==
    /\ At(p, "getKey")
    /\ IF env[encryptionKey] = NoText
       THEN /\ Call(p, "os.Getenv", <<encryptionKey>>, "empty", 0)
            /\ Panic(p, keyPathErr)
            /\ UNCHANGED encKey
       ELSE \E ok \in BOOLEAN :
            /\ trace' = [trace EXCEPT ![p] =
                   @ \o <<Event("os.Getenv", <<encryptionKey>>, "ok", 0),
                          Event("cflib.ReadKeyFile", env[encryptionKey],
                                IF ok THEN "ok" ELSE "err", 0)>>]
            /\ IF ok
               THEN /\ encKey' = [encKey EXCEPT ![p] = KeyBytes]
                    /\ Goto(p, "encMkdir")
                    /\ UNCHANGED stderr
               ELSE /\ Panic(p, <<"open ">> \o env[encryptionKey]
                                   \o <<": no such file or directory">>)
                    /\ UNCHANGED encKey
    /\ UNCHANGED <<shared, flags, disk, s3, now, paths, plain, enc, target, stdout>>

\* encryptBackupFile: the two Printf calls and os.MkdirAll(dir, 0755)
EncMkdir(p) ==
    /\ At(p, "encMkdir")
    /\ stdout' = [stdout EXCEPT ![p] =
           @ \o <<Line("dstPath %s\n", <<encryptedFile[p]>>),
                  Line("dst dir %s\n", <<Dir(encryptedFile[p])>>)>>]
    /\ \E ok \in BOOLEAN :
        IF ok
        THEN /\ Call(p, "os.MkdirAll", Dir(encryptedFile[p]), "ok", 0)
             /\ dirs' = dirs \cup MkdirAllDirs(Dir(encryptedFile[p]))
             /\ Goto(p, "encRead")
             /\ UNCHANGED stderr
        ELSE /\ Call(p, "os.MkdirAll", Dir(encryptedFile[p]), "err", 0)
             /\ Panic(p, <<"mkdir: permission denied">>)
             /\ UNCHANGED dirs
    /\ UNCHANGED <<shared, flags, files, s3, now, paths, crypt, target>>

\* in, err := ioutil.ReadFile(srcPath); if err != nil { return err }
EncRead(p) ==
    /\ At(p, "encRead")
    /\ \E readable \in BOOLEAN :
        IF readable /\ backupFile[p] \in DOMAIN files
        THEN /\ Call(p, "ioutil.ReadFile", backupFile[p], "ok", 0)
             /\ plain' = [plain EXCEPT ![p] = files[backupFile[p]]]
             /\ Goto(p, "encEncrypt")
             /\ UNCHANGED stderr
        ELSE /\ Call(p, "ioutil.ReadFile", backupFile[p], "err", 0)
             /\ Panic(p, <<"open ">> \o backupFile[p] \o <<": permission denied">>)
             /\ UNCHANGED plain
    /\ UNCHANGED <<shared, flags, disk, s3, now, paths, encKey, enc, target, stdout>>

\* enc, err := cflib.CompressAndEncrypt(key, in): the error is assigned and
\* never tested; on failure enc is nil
EncEncrypt(p) ==
    /\ At(p, "encEncrypt")
    /\ \E ok \in BOOLEAN :
        /\ Call(p, "cflib.CompressAndEncrypt", NoText, IF ok THEN "ok" ELSE "err", 0)
        /\ enc' = [enc EXCEPT ![p] =
               IF ok THEN Content("cipher", p, plain[p].kind, plain[p].by) ELSE Nil]
    /\ Goto(p, "encWrite")
    /\ UNCHANGED <<shared, flags, disk, s3, now, paths, encKey, plain, target,
                   stdout, stderr>>

\* what encryptBackupFile returns after ioutil.WriteFile returned writeErr
encryptBackupFileReturn(writeErr) == NoError

\* the bytes ioutil.WriteFile puts in the file: a nil slice gives an empty file
Written(p, bytes) == IF bytes = Nil THEN Content("empty", p, "", 0) ELSE bytes

\* err = ioutil.WriteFile(dstPath, enc, 0600); return nil.  A failed write
\* leaves the file as it was or leaves it truncated
EncWrite(p) ==
    /\ At(p, "encWrite")
    /\ \E res \in {"ok", "unchanged", "truncated"} :
        /\ Call(p, "ioutil.WriteFile", encryptedFile[p],
                IF res = "ok" THEN "ok" ELSE "err", 0)
        /\ files' = CASE res = "ok" -> Put(files, encryptedFile[p], Written(p, enc[p]))
                      [] res = "truncated" ->
                             Put(files, encryptedFile[p], Content("empty", p, "", 0))
                      [] res = "unchanged" -> files
        /\ LET writeErr == IF res = "ok" THEN NoError
                           ELSE <<"open ">> \o encryptedFile[p] \o <<": write failed">>
           IN IF encryptBackupFileReturn(writeErr) # NoError
              THEN Panic(p, encryptBackupFileReturn(writeErr))
              ELSE Goto(p, "printEnc") /\ UNCHANGED stderr
    /\ UNCHANGED <<shared, flags, dirs, s3, now, paths, crypt, target, stdout>>

\* fmt.Printf("encrypted file: %s\n", encryptedFile)
PrintEnc(p) ==
    /\ At(p, "printEnc")
    /\ Printf(p, "encrypted file: %s\n", <<encryptedFile[p]>>)
    /\ Goto(p, "getRegion")
    /\ UNCHANGED <<shared, flags, disk, s3, now, paths, crypt, target, stderr, trace>>

(***************************************************************************)
(* main(): region, bucket, storage key, upload.                            *)
(***************************************************************************)
\* region := getenv(...); fmt.Printf("region: %s\n", region)
GetRegion(p) ==
    /\ At(p, "getRegion")
    /\ IF getenvMissing(env[s3BackupRegionEnvVar])
       THEN /\ getenvFatal(p, s3BackupRegionEnvVar)
            /\ UNCHANGED <<region, stdout>>
       ELSE /\ Call(p, "os.Getenv", <<s3BackupRegionEnvVar>>, "ok", 0)
            /\ region' = [region EXCEPT ![p] = env[s3BackupRegionEnvVar]]
            /\ Printf(p, "region: %s\n", <<env[s3BackupRegionEnvVar]>>)
            /\ Goto(p, "getBucket")
            /\ UNCHANGED stderr
    /\ UNCHANGED <<shared, flags, disk, s3, now, paths, crypt, bucket, s3key>>

\* bucket := getenv(...); key := createS3Key(encryptedFile); the Printf;
\* a dry run then returns from main
GetBucket(p) ==
    /\ At(p, "getBucket")
    /\ IF getenvMissing(env[s3BackupBucketEnvVar])
       THEN /\ getenvFatal(p, s3BackupBucketEnvVar)
            /\ UNCHANGED <<bucket, s3key, stdout>>
       ELSE /\ Call(p, "os.Getenv", <<s3BackupBucketEnvVar>>, "ok", 0)
            /\ bucket' = [bucket EXCEPT ![p] = env[s3BackupBucketEnvVar]]
            /\ s3key' = [s3key EXCEPT ![p] = createS3Key(encryptedFile[p])]
            /\ Printf(p, "S3 key: %s\n", <<createS3Key(encryptedFile[p])>>)
            /\ IF IsDryRun(p) THEN Exit(p, ExitSuccess) ELSE Goto(p, "upload")
            /\ UNCHANGED stderr
    /\ UNCHANGED <<shared, flags, disk, s3, now, paths, crypt, region>>

\* a main that tries the upload again after a failure
uploadRetried(p, err) ==
    /\ Fprintf(p, "failed to upload to S3: %v\n", <<err>>)
    /\ Goto(p, "upload")

\* main: "failed to upload to S3: %v\n" on the error stream, os.Exit(1)
uploadFailed(p, err) ==
    /\ Fprintf(p, "failed to upload to S3: %v\n", <<err>>)
    /\ Exit(p, ExitFailure)

\* uploadToS3(region, bucket, key, encryptedFile), then main returns
Upload(p) ==
    /\ At(p, "upload")
    /\ \E res \in {"ok", "session", "open", "upload"} :
        /\ res = "ok" => encryptedFile[p] \in DOMAIN files
        /\ res = "open" => encryptedFile[p] \notin DOMAIN files
        /\ res = "upload" => encryptedFile[p] \in DOMAIN files
        /\ Call(p, "uploadToS3", s3key[p], res, 0)
        /\ CASE res = "ok" ->
                  /\ s3' = Put(s3, <<region[p], bucket[p], s3key[p]>>,
                               files[encryptedFile[p]])
                  /\ Exit(p, ExitSuccess)
                  /\ UNCHANGED stderr
             [] res = "session" ->
                  /\ Panic(p, <<"session.NewSession: failed to load configuration">>)
                  /\ UNCHANGED s3
             [] res = "open" ->
                  /\ uploadFailed(p, <<"open ">> \o encryptedFile[p]
                                       \o <<": no such file or directory">>)
                  /\ UNCHANGED s3
             [] res = "upload" ->
                  /\ uploadFailed(p, <<"RequestError: send request failed">>)
                  /\ UNCHANGED s3
    /\ UNCHANGED <<shared, flags, disk, now, paths, crypt, target, stdout>>

(***************************************************************************)
(* The wall clock advances while some invocation is running.               *)
(***************************************************************************)
Tick ==
    /\ ticks < MaxTicks
    /\ \E p \in Procs : pc[p] \notin {"start", "exited"}
    /\ clock' = Advance(clock, TickSeconds)
    /\ ticks' = ticks + 1
    /\ UNCHANGED <<env, flags, disk, s3, pc, now, paths, crypt, target, stdout,
                   stderr, exitCode, trace>>

Next ==
    \/ \E p \in Procs : Start(p)
    \/ \E p \in Procs : GetBackupDir(p)
    \/ \E p \in Procs : DumpMkdir(p)
    \/ \E p \in Procs : DumpUser(p)
    \/ \E p \in Procs : DumpPass(p)
    \/ \E p \in Procs : DumpRun(p)
    \/ \E p \in Procs : PrintBackup(p)
    \/ \E p \in Procs : GetEncDir(p)
    \/ \E p \in Procs : GetKey(p)
    \/ \E p \in Procs : EncMkdir(p)
    \/ \E p \in Procs : EncRead(p)
    \/ \E p \in Procs : EncEncrypt(p)
    \/ \E p \in Procs : EncWrite(p)
    \/ \E p \in Procs : PrintEnc(p)
    \/ \E p \in Procs : GetRegion(p)
    \/ \E p \in Procs : GetBucket(p)
    \/ \E p \in Procs : Upload(p)
    \/ Tick

Spec == Init /\ [][Next]_vars

\* two invocations with the same full configuration: process 1 is a dry run,
\* process 2 a live run
InitPair ==
    /\ env \in FullEnvs
    /\ clock \in StartTimes
    /\ files \in InitialFiles(env, clock)
    /\ dryRun = [p \in {1, 2} |-> p = 1]
    /\ printEnv = [p \in {1, 2} |-> FALSE]
    /\ InitProcs({1, 2})

SpecPair == InitPair /\ [][Next]_vars

(***************************************************************************)
(* Vocabulary of the properties.                                           *)
(***************************************************************************)
Live(p) == ~dryRun[p] /\ ~printEnv[p]

Exited(p) == pc[p] = "exited"

Did(p, op) == \E i \in 1..Len(trace[p]) : trace[p][i].op = op

\* a step of the pipeline that failed: the dump (launch or exit status), the
\* key load, the plaintext read, the primitive, the ciphertext write
StepFailed(e) ==
    \/ e.op = "mysqldump" /\ (e.res = "nolaunch" \/ e.code # 0)
    \/ e.op = "os.Getenv" /\ e.arg = <<encryptionKey>> /\ e.res = "empty"
    \/ e.op \in {"cflib.ReadKeyFile", "ioutil.ReadFile", "cflib.CompressAndEncrypt",
                 "ioutil.WriteFile"} /\ e.res = "err"

UploadFailed(e) == e.op = "uploadToS3" /\ e.res # "ok"

\* calls that create a directory or a file, run the dump tool or use the network
SideEffectOps == {"os.MkdirAll", "mysqldump", "ioutil.WriteFile", "uploadToS3"}

LastOf(seq) == seq[Len(seq)]

\* the variable whose os.Getenv gave "" as the last call of p, if any
MissingAtEnd(p, name) ==
    /\ trace[p] # <<>>
    /\ LastOf(trace[p]).op = "os.Getenv"
    /\ LastOf(trace[p]).arg = <<name>>
    /\ LastOf(trace[p]).res = "empty"

\* the diagnostic names the variable
Names(line, name) ==
    \E i \in 1..Len(line.args) : \E j \in 1..Len(line.args[i]) : line.args[i][j] = name

RECURSIVE IsSubseq(_, _)
IsSubseq(a, b) ==
    IF a = <<>> THEN TRUE
    ELSE IF b = <<>> THEN FALSE
    ELSE IF Head(a) = Head(b) THEN IsSubseq(Tail(a), Tail(b))
    ELSE IsSubseq(a, Tail(b))

IsPrefix(a, b) == Len(a) <= Len(b) /\ SubSeq(b, 1, Len(a)) = a

\* the lines of p's standard output printed with format fmt
Printed(p, fmt) == {stdout[p][i] : i \in {k \in 1..Len(stdout[p]) : stdout[p][k].fmt = fmt}}

PathFormats ==
    {"database backed up to %s\n", "encrypted file: %s\n", "region: %s\n", "S3 key: %s\n"}

\* the local files are those that were there before the run
OnlyStaleFiles == \A f \in DOMAIN files : files[f] = Stale

(***************************************************************************)
(* C1: a live run is fail-fast: once the dump, the key load, the plaintext *)
(* read, the compress-and-encrypt primitive or the ciphertext write has    *)
(* failed, no later step is started (so the failed call is the last call   *)
(* the run makes, and no upload follows it).                               *)
(***************************************************************************)
C1_FailFast ==
    \A p \in Procs :
        Live(p) =>
            \A i \in 1..Len(trace[p]) :
                StepFailed(trace[p][i]) => i = Len(trace[p])

(***************************************************************************)
(* C2: no error is swallowed: a live run in which any step failed (dump,   *)
(* key load, plaintext read, primitive, ciphertext write, upload) never    *)
(* reaches exit status 0, and ends with a diagnostic on the error stream.  *)
(***************************************************************************)
C2_NoSilentFailure ==
    \A p \in Procs :
        (/\ Live(p)
         /\ Exited(p)
         /\ \E i \in 1..Len(trace[p]) :
                StepFailed(trace[p][i]) \/ UploadFailed(trace[p][i]))
        => (exitCode[p] # ExitSuccess /\ stderr[p] # <<>>)

(***************************************************************************)
(* C3 as stated: in a live run with any of the seven variables missing or  *)
(* empty, no directory or file is created, the dump tool is not invoked    *)
(* and no network call is made.                                            *)
(***************************************************************************)
C3_AbortBeforeAnySideEffect ==
    \A p \in Procs :
        (Live(p) /\ \E n \in EnvVars : env[n] = NoText)
        => \A op \in SideEffectOps : ~Did(p, op)

(***************************************************************************)
(* C3 amended: in a live run with any of the seven variables missing or    *)
(* empty, the upload is never started and the run never ends with status   *)
(* 0; when the backup directory variable is the missing one, no directory  *)
(* or file is created and the dump tool is not invoked; when the DB user   *)
(* or password is missing, the dump tool is not invoked.                   *)
(***************************************************************************)
C3_AbortBeforeUpload ==
    \A p \in Procs :
        Live(p) =>
            /\ (\E n \in EnvVars : env[n] = NoText)
               => (~Did(p, "uploadToS3") /\ exitCode[p] # ExitSuccess /\ s3 = EmptyMap)
            /\ env[backupDirEnvVar] = NoText
               => ((\A op \in SideEffectOps : ~Did(p, op)) /\ dirs = {} /\ OnlyStaleFiles)
            /\ (env[mysqlUserEnvVar] = NoText \/ env[mysqlPassEnvVar] = NoText)
               => ~Did(p, "mysqldump")

\* a live run without a region has dumped and written the encrypted file
\* before it stops with status 1
C3_Witness ==
    \E p \in Procs :
        /\ Live(p)
        /\ MissingAtEnd(p, s3BackupRegionEnvVar)
        /\ exitCode[p] = ExitFailure
        /\ Did(p, "mysqldump")
        /\ Did(p, "ioutil.WriteFile")
        /\ ~Did(p, "uploadToS3")

(***************************************************************************)
(* C4: in every state of a dry run the dump tool has not been invoked, no  *)
(* directory or file has been created, the key file has not been read,     *)
(* the compress-and-encrypt primitive and the upload client have not been  *)
(* invoked.                                                                *)
(***************************************************************************)
C4_DryRunNoSideEffects ==
    \A p \in Procs :
        dryRun[p] =>
            /\ \A i \in 1..Len(trace[p]) : trace[p][i].op \in {"time.Now", "os.Getenv"}
            /\ \A i \in 1..Len(trace[p]) : trace[p][i].arg # <<encryptionKey>>
            /\ dirs = {}
            /\ OnlyStaleFiles
            /\ s3 = EmptyMap
            /\ encKey[p] = NoKey
            /\ plain[p] = Nil
            /\ enc[p] = Nil

\* a dry run that went through all its steps
C4_Witness ==
    \E p \in Procs :
        /\ dryRun[p]
        /\ ~printEnv[p]
        /\ Exited(p)
        /\ exitCode[p] = ExitSuccess
        /\ Len(stdout[p]) = 4

(***************************************************************************)
(* C5: a dry run and a fully successful live run with the same             *)
(* configuration and the same captured timestamp print the same plaintext  *)
(* path, encrypted path, region and storage key.                           *)
(***************************************************************************)
C5_DryRunPrintsLivePaths ==
    \A p, q \in Procs :
        (/\ dryRun[p] /\ Exited(p) /\ exitCode[p] = ExitSuccess
         /\ Live(q) /\ Exited(q) /\ exitCode[q] = ExitSuccess
         /\ now[p] = now[q])
        => \A fmt \in PathFormats :
               /\ Cardinality(Printed(p, fmt)) = 1
               /\ Printed(p, fmt) = Printed(q, fmt)

\* both runs ended with status 0, the wall clock having moved between them
C5_Witness ==
    \E p, q \in Procs :
        /\ dryRun[p] /\ Exited(p) /\ exitCode[p] = ExitSuccess
        /\ Live(q) /\ Exited(q) /\ exitCode[q] = ExitSuccess
        /\ now[p] = now[q]
        /\ clock # now[p]
        /\ Did(q, "uploadToS3")

(***************************************************************************)
(* C6 as stated: every line a fully successful live run writes to standard *)
(* output is also written by the dry run with the same configuration and   *)
(* timestamp, in the same relative order.                                  *)
(***************************************************************************)
C6_DryRunIsSuperset ==
    \A p, q \in Procs :
        (/\ dryRun[p] /\ Exited(p) /\ exitCode[p] = ExitSuccess
         /\ Live(q) /\ Exited(q) /\ exitCode[q] = ExitSuccess
         /\ now[p] = now[q])
        => IsSubseq(stdout[q], stdout[p])

(***************************************************************************)
(* C6 amended: every line the dry run writes to standard output is also    *)
(* written by a fully successful live run with the same configuration and  *)
(* timestamp, in the same relative order; the live run writes two more     *)
(* lines, the "dstPath" and "dst dir" lines of encryptBackupFile.          *)
(***************************************************************************)
C6_LiveIsSuperset ==
    \A p, q \in Procs :
        (/\ dryRun[p] /\ Exited(p) /\ exitCode[p] = ExitSuccess
         /\ Live(q) /\ Exited(q) /\ exitCode[q] = ExitSuccess
         /\ now[p] = now[q])
        => /\ IsSubseq(stdout[p], stdout[q])
           /\ Len(stdout[q]) = Len(stdout[p]) + 2
           /\ \A i \in 1..Len(stdout[q]) :
                  stdout[q][i].fmt \in {"dstPath %s\n", "dst dir %s\n"}
                  <=> ~(\E j \in 1..Len(stdout[p]) : stdout[p][j] = stdout[q][i])

\* both runs ended with status 0 and the live run printed its six lines
C6_Witness ==
    \E p, q \in Procs :
        /\ dryRun[p] /\ Exited(p) /\ exitCode[p] = ExitSuccess
        /\ Live(q) /\ Exited(q) /\ exitCode[q] = ExitSuccess
        /\ now[p] = now[q]
        /\ Len(stdout[q]) = 6
        /\ Printed(q, "dstPath %s\n") # {}

(***************************************************************************)
(* C7 as stated: in a live run, when any of the seven variables is missing *)
(* or empty at the moment it is read, the process ends with exit status 1  *)
(* and a diagnostic that names the variable (the key path variable         *)
(* included).                                                              *)
(***************************************************************************)
C7_ConfigErrorExitsOne ==
    \A p \in Procs : \A n \in EnvVars :
        (Live(p) /\ MissingAtEnd(p, n))
        => /\ Exited(p)
           /\ exitCode[p] = 1
           /\ stderr[p] # <<>>
           /\ Names(LastOf(stderr[p]), n)

(***************************************************************************)
(* C7 amended: in a live run, when any of the seven variables is missing   *)
(* or empty at the moment it is read, the process ends with a non-zero     *)
(* exit status and a diagnostic that names the variable: status 1 and      *)
(* "cannot get env var <name>" for the six variables read by getenv,       *)
(* status 2 (an uncaught panic) for the key path variable.                 *)
(***************************************************************************)
C7_ConfigErrorExitsNonZero ==
    \A p \in Procs : \A n \in EnvVars :
        (Live(p) /\ MissingAtEnd(p, n))
        => /\ Exited(p)
           /\ stderr[p] # <<>>
           /\ Names(LastOf(stderr[p]), n)
           /\ IF n = encryptionKey
              THEN /\ exitCode[p] = 2
                   /\ LastOf(stderr[p]).fmt = "panic: %v\n\ngoroutine 1 [running]:\n"
              ELSE /\ exitCode[p] = 1
                   /\ LastOf(stderr[p]) = Line("cannot get env var %s", <<<<n>>>>)

\* a live run stopped by the missing key path variable
C7_Witness ==
    \E p \in Procs :
        /\ Live(p)
        /\ MissingAtEnd(p, encryptionKey)
        /\ Exited(p)
        /\ Did(p, "mysqldump")

(***************************************************************************)
(* C8: when the dump tool exits with a non-zero status c, or cannot be     *)
(* started, the live run ends with exit status 1 and a "mysql backup       *)
(* failed" diagnostic on the error stream, which contains c in decimal     *)
(* when there is an exit status; the key is not loaded, nothing is         *)
(* encrypted or written and the upload is not started.                     *)
(***************************************************************************)
C8_DumpFailureExitsOne ==
    \A p \in Procs : \A i \in 1..Len(trace[p]) :
        LET e == trace[p][i]
        IN (e.op = "mysqldump" /\ (e.res = "nolaunch" \/ e.code # 0))
           => /\ i = Len(trace[p])
              /\ Exited(p)
              /\ exitCode[p] = 1
              /\ stdout[p] = <<>>
              /\ Len(stderr[p]) = 1
              /\ stderr[p][1].fmt = "mysql backup failed: %v\n"
              /\ e.res = "exit" => Contains(stderr[p][1].args[1], Itoa(e.code))
              /\ encKey[p] = NoKey /\ enc[p] = Nil /\ s3 = EmptyMap
              /\ \A op \in {"cflib.ReadKeyFile", "ioutil.ReadFile",
                            "cflib.CompressAndEncrypt", "ioutil.WriteFile",
                            "uploadToS3"} : ~Did(p, op)

\* the dump tool ended with a two-digit exit status
C8_Witness ==
    \E p \in Procs :
        /\ trace[p] # <<>>
        /\ LastOf(trace[p]).op = "mysqldump"
        /\ LastOf(trace[p]).code = 10
        /\ Exited(p)

(***************************************************************************)
(* C9: with -env, for every environment and either value of -dry-run, the  *)
(* run prints the reference text and ends with exit status 0; it reads no  *)
(* environment variable, captures no timestamp, creates no file or         *)
(* directory and invokes neither the dump tool, the primitive nor the      *)
(* upload client.                                                          *)
(***************************************************************************)
C9_EnvReferenceOnly ==
    \A p \in Procs :
        printEnv[p] =>
            /\ trace[p] = <<>>
            /\ now[p] = NoTime
            /\ stderr[p] = <<>>
            /\ dirs = {} /\ OnlyStaleFiles /\ s3 = EmptyMap
            /\ encKey[p] = NoKey /\ plain[p] = Nil /\ enc[p] = Nil
            /\ pc[p] \in {"start", "exited"}
            /\ Exited(p) => (exitCode[p] = 0 /\ stdout[p] = <<Line(envReference, <<>>)>>)
            /\ ~Exited(p) => (exitCode[p] = NotExited /\ stdout[p] = <<>>)

\* a live -env run in an environment without any variable has ended
C9_Witness ==
    \E p \in Procs :
        /\ printEnv[p]
        /\ ~dryRun[p]
        /\ \A n \in EnvVars : env[n] = NoText
        /\ Exited(p)
        /\ stdout[p] # <<>>

(***************************************************************************)
(* C10: the calls of a run follow one fixed order, in which each variable  *)
(* is read only when its step is reached: backup dir, (live) dump with the *)
(* DB user and password, encrypted dir, (live) encryption with the key     *)
(* path, region, bucket, (live) upload.  A run stopped by a missing        *)
(* variable has made every call that precedes the read of that variable,   *)
(* and a dry run reads only the four directory, region and bucket          *)
(* variables: with those four set it ends with exit status 0.              *)
(***************************************************************************)
Sig(op, name) == <<op, name>>

\* the calls of a live run, in order
LiveOrder ==
    <<Sig("time.Now", ""),
      Sig("os.Getenv", backupDirEnvVar),
      Sig("os.MkdirAll", ""),
      Sig("os.Getenv", mysqlUserEnvVar),
      Sig("os.Getenv", mysqlPassEnvVar),
      Sig("mysqldump", ""),
      Sig("os.Getenv", encryptedBackupDirEnvVar),
      Sig("os.Getenv", encryptionKey),
      Sig("cflib.ReadKeyFile", ""),
      Sig("os.MkdirAll", ""),
      Sig("ioutil.ReadFile", ""),
      Sig("cflib.CompressAndEncrypt", ""),
      Sig("ioutil.WriteFile", ""),
      Sig("os.Getenv", s3BackupRegionEnvVar),
      Sig("os.Getenv", s3BackupBucketEnvVar),
      Sig("uploadToS3", "")>>

\* the calls of a dry run, in order
DryOrder ==
    <<Sig("time.Now", ""),
      Sig("os.Getenv", backupDirEnvVar),
      Sig("os.Getenv", encryptedBackupDirEnvVar),
      Sig("os.Getenv", s3BackupRegionEnvVar),
      Sig("os.Getenv", s3BackupBucketEnvVar)>>

Sigs(tr) ==
    [i \in 1..Len(tr) |->
        Sig(tr[i].op, IF tr[i].op = "os.Getenv" THEN tr[i].arg[1] ELSE "")]

\* the run was stopped by a configuration error
ConfigError(p) ==
    /\ Exited(p)
    /\ stderr[p] # <<>>
    /\ \E n \in EnvVars : Names(LastOf(stderr[p]), n)

C10_LazyValidationOrder ==
    \A p \in Procs :
        ~printEnv[p] =>
            /\ IsPrefix(Sigs(trace[p]), IF dryRun[p] THEN DryOrder ELSE LiveOrder)
            /\ ConfigError(p) => \E n \in EnvVars :
                   MissingAtEnd(p, n) /\ Names(LastOf(stderr[p]), n)
            /\ (/\ dryRun[p]
                /\ Exited(p)
                /\ \A n \in {backupDirEnvVar, encryptedBackupDirEnvVar,
                             s3BackupRegionEnvVar, s3BackupBucketEnvVar} :
                       env[n] # NoText)
               => (exitCode[p] = ExitSuccess /\ Sigs(trace[p]) = DryOrder)

\* a dry run with only the four variables set has ended with status 0
C10_Witness ==
    \E p \in Procs :
        /\ dryRun[p]
        /\ ~printEnv[p]
        /\ \A n \in EnvVars :
               env[n] # NoText <=> n \in {backupDirEnvVar, encryptedBackupDirEnvVar,
                                          s3BackupRegionEnvVar, s3BackupBucketEnvVar}
        /\ Exited(p)
        /\ exitCode[p] = ExitSuccess

(***************************************************************************)
(* The path derivation on its own: main's three derivations (lines 180,    *)
(* 190-191, 206) applied to base directories and timestamps drawn from     *)
(* sets wider than those of the pipeline.                                  *)
(***************************************************************************)
DeriveTimes ==
    {[year |-> 2024, month |-> 1, day |-> 15, hour |-> 9, min |-> 30, sec |-> 0],
     [year |-> 2024, month |-> 1, day |-> 15, hour |-> 9, min |-> 30, sec |-> 59],
     [year |-> 2024, month |-> 10, day |-> 2, hour |-> 10, min |-> 5, sec |-> 0],
     [year |-> 2023, month |-> 12, day |-> 31, hour |-> 23, min |-> 59, sec |-> 40],
     [year |-> 987, month |-> 6, day |-> 5, hour |-> 4, min |-> 3, sec |-> 2],
     [year |-> 9999, month |-> 12, day |-> 31, hour |-> 23, min |-> 59, sec |-> 59],
     [year |-> 10000, month |-> 1, day |-> 1, hour |-> 0, min |-> 0, sec |-> 0]}

DeriveDirs ==
    {<<"/", "b", "a", "c", "k", "u", "p">>,
     <<"/", "e", "b", "a", "c", "k", "u", "p">>,
     <<"b">>,
     <<".">>,
     <<"/">>,
     <<".", ".">>,
     <<"e", ".", "d", "/", "/", "x", "/", ".", ".", "/">>}

\* the configuration with the two base directories P and E
DeriveEnv(P, E) ==
    [n \in EnvVars |-> IF n = backupDirEnvVar THEN P
                       ELSE IF n = encryptedBackupDirEnvVar THEN E
                       ELSE ValueOf(n)]

\* the state around a derivation: nothing has run, nothing exists
InitIdle(P) ==
    /\ clock = NoTime
    /\ ticks = 0
    /\ dirs = {}
    /\ files = EmptyMap
    /\ s3 = EmptyMap
    /\ pc = [p \in P |-> "start"]
    /\ dryRun = [p \in P |-> TRUE]
    /\ printEnv = [p \in P |-> FALSE]
    /\ encKey = [p \in P |-> NoKey]
    /\ plain = [p \in P |-> Nil]
    /\ enc = [p \in P |-> Nil]
    /\ region = [p \in P |-> NoText]
    /\ bucket = [p \in P |-> NoText]
    /\ stdout = [p \in P |-> <<>>]
    /\ stderr = [p \in P |-> <<>>]
    /\ exitCode = [p \in P |-> NotExited]
    /\ trace = [p \in P |-> <<>>]

\* two derivations side by side, each from its own timestamp, over one
\* configuration
InitDerive ==
    /\ env \in {DeriveEnv(P, E) : P \in DeriveDirs, E \in DeriveDirs}
    /\ now \in [{1, 2} -> DeriveTimes]
    /\ backupFile = [p \in {1, 2} |-> NoText]
    /\ encryptedFile = [p \in {1, 2} |-> NoText]
    /\ s3key = [p \in {1, 2} |-> NoText]
    /\ InitIdle({1, 2})

\* backupFile := createBackupFilePath(getenv(backupDirEnvVar), now)
DerivePlain(p) ==
    /\ At(p, "start")
    /\ backupFile' = [backupFile EXCEPT
                         ![p] = createBackupFilePath(env[backupDirEnvVar], now[p])]
    /\ Goto(p, "getEncDir")
    /\ UNCHANGED <<shared, flags, disk, s3, now, encryptedFile, crypt, target,
                   stdout, stderr, trace>>

\* encryptedFile := encryptedBackupResult(createBackupFilePath(
\*     getenv(encryptedBackupDirEnvVar), now))
DeriveEncrypted(p) ==
    /\ At(p, "getEncDir")
    /\ encryptedFile' = [encryptedFile EXCEPT
                            ![p] = encryptedBackupResult(createBackupFilePath(
                                       env[encryptedBackupDirEnvVar], now[p]))]
    /\ Goto(p, "getBucket")
    /\ UNCHANGED <<shared, flags, disk, s3, now, backupFile, crypt, target,
                   stdout, stderr, trace>>

\* key := createS3Key(encryptedFile)
DeriveKey(p) ==
    /\ At(p, "getBucket")
    /\ s3key' = [s3key EXCEPT ![p] = createS3Key(encryptedFile[p])]
    /\ Goto(p, "upload")
    /\ UNCHANGED <<shared, flags, disk, s3, now, paths, crypt, region, bucket,
                   stdout, stderr, trace>>

NextDerive ==
    \/ \E p \in Procs : DerivePlain(p)
    \/ \E p \in Procs : DeriveEncrypted(p)
    \/ \E p \in Procs : DeriveKey(p)

SpecDerive == InitDerive /\ [][NextDerive]_vars

(***************************************************************************)
(* Vocabulary of the derivation properties.                                *)
(***************************************************************************)
IsClean(dir) == Clean(dir) = dir

\* n written in exactly w decimal digits
RECURSIVE Digits(_, _)
Digits(n, w) ==
    IF w = 0 THEN <<>>
    ELSE Digits(n \div 10, w - 1) \o <<DigitChars[(n % 10) + 1]>>

\* <YYYY-MM> of t
YearMonth(t) == Digits(t.year, 4) \o <<"-">> \o Digits(t.month, 2)

\* <YYYYMMDDHHMM> of t
Stamp(t) ==
    Digits(t.year, 4) \o Digits(t.month, 2) \o Digits(t.day, 2)
    \o Digits(t.hour, 2) \o Digits(t.min, 2)

DumpName(t) == <<"d", "u", "m", "p", "-">> \o Stamp(t) \o <<".", "s", "q", "l">>

CipherName(t) ==
    <<"d", "u", "m", "p", "-">> \o Stamp(t) \o <<"-", "s", "q", "l", ".", "c", "f">>

FourDigitYear(t) == t.year \in 0..9999

PlainDerived(p) == backupFile[p] # NoText

EncDerived(p) == encryptedFile[p] # NoText

KeyDerived(p) == s3key[p] # NoText

ExampleTime ==
    [year |-> 2024, month |-> 1, day |-> 15, hour |-> 9, min |-> 30, sec |-> 0]

ExampleInputs(p) ==
    /\ now[p] = ExampleTime
    /\ env[backupDirEnvVar] = <<"/", "b", "a", "c", "k", "u", "p">>
    /\ env[encryptedBackupDirEnvVar] = <<"/", "e", "b", "a", "c", "k", "u", "p">>

\* the three artifacts have the shape the claim gives them
ShapedAsClaimed(p) ==
    /\ PlainDerived(p) /\ IsClean(env[backupDirEnvVar])
       => backupFile[p] = env[backupDirEnvVar] \o <<"/">> \o YearMonth(now[p])
                          \o <<"/">> \o DumpName(now[p])
    /\ EncDerived(p) /\ IsClean(env[encryptedBackupDirEnvVar])
       => encryptedFile[p] = env[encryptedBackupDirEnvVar] \o <<"/">>
                             \o YearMonth(now[p]) \o <<"/">> \o CipherName(now[p])
    /\ KeyDerived(p) /\ IsClean(env[encryptedBackupDirEnvVar])
       => s3key[p] = YearMonth(now[p]) \o <<"/">> \o CipherName(now[p])

\* C11 as stated: for every timestamp and every pair of clean base
\* directories P and E the derived plaintext path is
\* P/<YYYY-MM>/dump-<YYYYMMDDHHMM>.sql, the encrypted path
\* E/<YYYY-MM>/dump-<YYYYMMDDHHMM>-sql.cf and the storage key
\* <YYYY-MM>/dump-<YYYYMMDDHHMM>-sql.cf.  Violated: the clean directories "."
\* and "/" are not kept as a prefix, and a year above 9999 takes five digits.
C11_EveryCleanDir == \A p \in Procs : ShapedAsClaimed(p)

\* C11 amended: for every timestamp of a four-digit year and every pair of
\* clean base directories other than "." and "/", the three artifacts have
\* the claimed shape; for every timestamp of a four-digit year and every
\* encrypted base directory, clean or not, the storage key is
\* <YYYY-MM>/dump-<YYYYMMDDHHMM>-sql.cf, so it depends on the timestamp only;
\* and 2024-01-15 09:30 with /backup and /ebackup gives the three texts of
\* the example.
C11_DerivedShapes ==
    \A p \in Procs :
        /\ /\ FourDigitYear(now[p])
           /\ env[backupDirEnvVar] \notin {<<".">>, <<"/">>}
           /\ env[encryptedBackupDirEnvVar] \notin {<<".">>, <<"/">>}
           => ShapedAsClaimed(p)
        /\ FourDigitYear(now[p]) /\ KeyDerived(p)
           => s3key[p] = YearMonth(now[p]) \o <<"/">> \o CipherName(now[p])
        /\ ExampleInputs(p) /\ KeyDerived(p)
           => /\ backupFile[p] = <<"/", "b", "a", "c", "k", "u", "p", "/",
                                   "2", "0", "2", "4", "-", "0", "1", "/",
                                   "d", "u", "m", "p", "-",
                                   "2", "0", "2", "4", "0", "1", "1", "5",
                                   "0", "9", "3", "0", ".", "s", "q", "l">>
              /\ encryptedFile[p] = <<"/", "e", "b", "a", "c", "k", "u", "p", "/",
                                      "2", "0", "2", "4", "-", "0", "1", "/",
                                      "d", "u", "m", "p", "-",
                                      "2", "0", "2", "4", "0", "1", "1", "5",
                                      "0", "9", "3", "0", "-", "s", "q", "l",
                                      ".", "c", "f">>
              /\ s3key[p] = <<"2", "0", "2", "4", "-", "0", "1", "/",
                              "d", "u", "m", "p", "-",
                              "2", "0", "2", "4", "0", "1", "1", "5",
                              "0", "9", "3", "0", "-", "s", "q", "l",
                              ".", "c", "f">>

\* one derivation has produced the example of C11 and the other a triple
\* from another timestamp
C11_Witness ==
    /\ ExampleInputs(1)
    /\ KeyDerived(1)
    /\ KeyDerived(2)
    /\ now[2] # now[1]

(***************************************************************************)
(* encryptedBackupResult on its own, applied to every text of at most      *)
(* MaxLen characters over an alphabet holding a word character, the dot,   *)
(* the separator, a character that is no word character and the line feed. *)
(***************************************************************************)
MaxLen == 5

RewriteChars == {"a", ".", "/", "-", "\n"}

RECURSIVE Texts(_, _)
Texts(chars, n) ==
    IF n = 0 THEN {<<>>}
    ELSE LET shorter == Texts(chars, n - 1)
         IN shorter \cup {Append(t, c) : t \in shorter, c \in chars}

\* the argument src is held in backupFile, the result in encryptedFile
InitRewrite ==
    /\ env = DeriveEnv(<<"/", "b">>, <<"/", "b">>)
    /\ now = [p \in {1} |-> NoTime]
    /\ backupFile \in [{1} -> Texts(RewriteChars, MaxLen)]
    /\ encryptedFile = [p \in {1} |-> NoText]
    /\ s3key = [p \in {1} |-> NoText]
    /\ InitIdle({1})

\* encryptedBackupResult(src)
Rewrite(p) ==
    /\ At(p, "start")
    /\ encryptedFile' = [encryptedFile EXCEPT ![p] = encryptedBackupResult(backupFile[p])]
    /\ Goto(p, "printEnc")
    /\ UNCHANGED <<shared, flags, disk, s3, now, backupFile, crypt, target,
                   stdout, stderr, trace>>

NextRewrite == \E p \in Procs : Rewrite(p)

SpecRewrite == InitRewrite /\ [][NextRewrite]_vars

(***************************************************************************)
(* C12.                                                                    *)
(***************************************************************************)
Rewritten(p) == pc[p] = "printEnc"

\* src is <stem>.<ext> with the dot at k: a non-empty stem before it, a
\* non-empty ext of word characters after it
HasExtAt(src, k) ==
    /\ k \in 2..(Len(src) - 1)
    /\ src[k] = "."
    /\ \A j \in (k + 1)..Len(src) : src[j] \in WordChars

\* <stem>-<ext>.cf for the dot at k
Folded(src, k) ==
    SubSeq(src, 1, k - 1) \o <<"-">> \o SubSeq(src, k + 1, Len(src))
    \o <<".", "c", "f">>

\* C12 as stated: every <stem>.<ext> with a non-empty stem and an ext of word
\* characters becomes <stem>-<ext>.cf, and every other path is returned
\* unchanged.  Violated by a stem that ends in a line feed: the path is
\* returned unchanged.
C12_FoldsEveryExtension ==
    \A p \in Procs :
        Rewritten(p) =>
            LET src == backupFile[p]
            IN /\ \A k \in 1..Len(src) :
                      HasExtAt(src, k) => encryptedFile[p] = Folded(src, k)
               /\ (~\E k \in 1..Len(src) : HasExtAt(src, k))
                      => encryptedFile[p] = src

\* C12 amended: every <stem>.<ext> whose stem is non-empty and does not end in
\* a line feed and whose ext is made of word characters becomes
\* <stem>-<ext>.cf, with the earlier dots of the stem kept; every other path
\* is returned unchanged.
C12_FoldsLastExtension ==
    \A p \in Procs :
        Rewritten(p) =>
            LET src == backupFile[p]
                Fits(k) == HasExtAt(src, k) /\ src[k - 1] # "\n"
            IN /\ \A k \in 1..Len(src) :
                      Fits(k) => /\ encryptedFile[p] = Folded(src, k)
                                 /\ \A j \in 1..(k - 1) :
                                        encryptedFile[p][j] = src[j]
               /\ (~\E k \in 1..Len(src) : Fits(k))
                      => encryptedFile[p] = src

\* a path with two dots has had its last extension folded and its first dot
\* kept
C12_Witness ==
    /\ backupFile[1] = <<"a", ".", "a", ".", "a">>
    /\ Rewritten(1)
    /\ encryptedFile[1] = <<"a", ".", "a", "-", "a", ".", "c", "f">>

(***************************************************************************)
(* createS3Key on its own, applied to every path of at most MaxLen         *)
(* characters over two name characters, the dot and the separator.         *)
(***************************************************************************)
KeyChars == {"a", "b", ".", "/"}

\* the argument encryptedFile is held in encryptedFile, the result in s3key
InitKey ==
    /\ env = DeriveEnv(<<"/", "b">>, <<"/", "b">>)
    /\ now = [p \in {1} |-> NoTime]
    /\ backupFile = [p \in {1} |-> NoText]
    /\ encryptedFile \in [{1} -> Texts(KeyChars, MaxLen)]
    /\ s3key = [p \in {1} |-> NoText]
    /\ InitIdle({1})

\* createS3Key(encryptedFile)
MakeKey(p) ==
    /\ At(p, "start")
    /\ s3key' = [s3key EXCEPT ![p] = createS3Key(encryptedFile[p])]
    /\ Goto(p, "upload")
    /\ UNCHANGED <<shared, flags, disk, s3, now, paths, crypt, region, bucket,
                   stdout, stderr, trace>>

NextKey == \E p \in Procs : MakeKey(p)

SpecKey == InitKey /\ [][NextKey]_vars

(***************************************************************************)
(* C13.                                                                    *)
(***************************************************************************)
KeyMade(p) == pc[p] = "upload"

Count(text, c) == Cardinality({i \in 1..Len(text) : text[i] = c})

\* the last "/"-separated element of a path: its basename (empty for the root
\* and for a path that ends in a separator)
LastElement(path) == LET elems == Elements(path) IN elems[Len(elems)]

\* C13: the key createS3Key returns holds exactly one "/"; the part before it
\* is the basename of the file's immediate parent directory (the last element
\* of the cleaned directory part: "." when the path names no directory, empty
\* when the parent is the root), the part after it is the file's basename,
\* and nothing else of the path is in the key.
C13_KeyIsParentSlashFile ==
    \A p \in Procs :
        KeyMade(p) =>
            LET file == encryptedFile[p]
                key == s3key[p]
                slash == LastIndex(key, "/")
            IN /\ Count(key, "/") = 1
               /\ SubSeq(key, 1, slash - 1) = LastElement(Dir(file))
               /\ SubSeq(key, slash + 1, Len(key)) = LastElement(file)

\* the key of a file two directories deep has been made: it names the inner
\* directory and the file, not the outer directory
C13_Witness ==
    /\ encryptedFile[1] = <<"a", "/", "b", "/", "a">>
    /\ KeyMade(1)
    /\ s3key[1] = <<"b", "/", "a">>

(***************************************************************************)
(* C14.                                                                    *)
(***************************************************************************)
\* uploadToS3 returned an error to main: the local file could not be opened,
\* or the upload itself failed
UploadReturnedError(e) == e.op = "uploadToS3" /\ e.res \in {"open", "upload"}

\* the dump step of p wrote the plaintext dump
DumpWritten(p) ==
    \E i \in 1..Len(trace[p]) :
        /\ trace[p][i].op = "mysqldump"
        /\ trace[p][i].res = "exit"
        /\ trace[p][i].code = 0

\* the encryption step of p wrote the encrypted file
CipherWritten(p) ==
    \E i \in 1..Len(trace[p]) :
        trace[p][i].op = "ioutil.WriteFile" /\ trace[p][i].res = "ok"

InitTwoLive ==
    /\ env = DeriveEnv(<<"/", "b">>,
                       <<"e", ".", "d", "/", "/", "x", "/", ".", ".", "/">>)
    /\ clock \in StartTimes
    /\ files = EmptyMap
    /\ dryRun = [p \in {1, 2} |-> FALSE]
    /\ printEnv = [p \in {1, 2} |-> FALSE]
    /\ InitProcs({1, 2})

SpecTwoLive == InitTwoLive /\ [][Next]_vars

(***************************************************************************)
(* C15.                                                                    *)
(***************************************************************************)
SameMinute(t, u) == [t EXCEPT !.sec = 0] = [u EXCEPT !.sec = 0]

Started(p) == pc[p] # "start"

S3Object(p) == <<region[p], bucket[p], s3key[p]>>

\* C15: two live invocations with the same configuration whose timestamps
\* fall within the same minute derive the same plaintext path, the same
\* encrypted path and the same storage key; once both have ended with status
\* 0 there is one plaintext file, one encrypted file and one remote object,
\* each written by one of the two.
C15_SameMinuteCollides ==
    \A p, q \in Procs :
        (p # q /\ Started(p) /\ Started(q) /\ SameMinute(now[p], now[q])) =>
            /\ (PlainDerived(p) /\ PlainDerived(q)) => backupFile[p] = backupFile[q]
            /\ (EncDerived(p) /\ EncDerived(q)) => encryptedFile[p] = encryptedFile[q]
            /\ (KeyDerived(p) /\ KeyDerived(q)) => s3key[p] = s3key[q]
            /\ (exitCode[p] = ExitSuccess /\ exitCode[q] = ExitSuccess)
               => /\ DOMAIN files = {backupFile[p], encryptedFile[p]}
                  /\ DOMAIN s3 = {S3Object(p)}
                  /\ files[backupFile[p]].by \in {p, q}
                  /\ files[encryptedFile[p]].by \in {p, q}
                  /\ s3[S3Object(p)].by \in {p, q}

\* two invocations started thirty seconds apart within one minute have both
\* uploaded, and the object left is the one process 2 encrypted
C15_Witness ==
    /\ now[1] # now[2]
    /\ SameMinute(now[1], now[2])
    /\ exitCode[1] = ExitSuccess
    /\ exitCode[2] = ExitSuccess
    /\ s3[S3Object(1)].kind = "cipher"
    /\ s3[S3Object(1)].by = 2
    /\ files[backupFile[1]].by = 1

(***************************************************************************)
(* C16.                                                                    *)
(***************************************************************************)
\* the characters of the paths in the order of their byte values
ByteOrder ==
    <<"\n", "-", ".", "/">> \o DigitChars \o
    <<"A", "B", "C", "D", "E", "F", "G", "H", "I", "J", "K", "L", "M", "N",
      "O", "P", "Q", "R", "S", "T", "U", "V", "W", "X", "Y", "Z", "_",
      "a", "b", "c", "d", "e", "f", "g", "h", "i", "j", "k", "l", "m", "n",
      "o", "p", "q", "r", "s", "t", "u", "v", "w", "x", "y", "z">>

Rank(c) == CHOOSE i \in 1..Len(ByteOrder) : ByteOrder[i] = c

\* a < b in the lexical (byte-wise) order of texts
LexLess(a, b) ==
    \E i \in 1..(Len(b)) :
        /\ i <= Len(a) + 1
        /\ SubSeq(a, 1, i - 1) = SubSeq(b, 1, i - 1)
        /\ (i = Len(a) + 1 \/ Rank(a[i]) < Rank(b[i]))

LexLeq(a, b) == a = b \/ LexLess(a, b)

Fields(t) == <<t.year, t.month, t.day, t.hour, t.min>>

\* t is before u, compared at minute granularity
TimeLess(t, u) ==
    \E i \in 1..5 :
        /\ \A j \in 1..(i - 1) : Fields(t)[j] = Fields(u)[j]
        /\ Fields(t)[i] < Fields(u)[i]

TimeLeq(t, u) == SameMinute(t, u) \/ TimeLess(t, u)

MonthDirOf(path) == LET elems == Elements(path) IN elems[Len(elems) - 1]

\* the twelve characters after "dump-" in the file name of a path or key
StampOf(path) == SubSeq(LastElement(path), 6, 17)

TimeReads(p) == {i \in 1..Len(trace[p]) : trace[p][i].op = "time.Now"}

Embeds(path, t) == MonthDirOf(path) = YearMonth(t) /\ StampOf(path) = Stamp(t)

\* C17: a run that is not an -env run reads the clock exactly once, as its
\* first call, before any step; and in every reachable state each of the
\* plaintext path, the encrypted path and the storage key that has been
\* derived embeds the YYYY-MM directory and the YYYYMMDDHHMM stamp of that one
\* reading, whatever the wall clock shows by then.
C17_OneTimestamp ==
    \A p \in Procs :
        /\ Cardinality(TimeReads(p)) <= 1
        /\ trace[p] # <<>> => TimeReads(p) = {1}
        /\ (Started(p) /\ ~printEnv[p]) => TimeReads(p) = {1}
        /\ PlainDerived(p) => Embeds(backupFile[p], now[p])
        /\ EncDerived(p) => Embeds(encryptedFile[p], now[p])
        /\ KeyDerived(p) => Embeds(s3key[p], now[p])

\* a live run started in the last minute of 2023 has derived its three
\* artifacts and uploaded while the wall clock already shows 2024
C17_Witness ==
    /\ Live(1)
    /\ now[1].year = 2023
    /\ clock.year = 2024
    /\ KeyDerived(1)
    /\ exitCode[1] = ExitSuccess
    /\ MonthDirOf(s3key[1]) = <<"2", "0", "2", "3", "-", "1", "2">>

(***************************************************************************)
(* One invocation in which every call returns.  Every step of a run moves  *)
(* its position and a run that has not ended always has a next step, so    *)
(* "the call the run is waiting for returns" is "its position changes".    *)
(***************************************************************************)
\* the positions of main in program order
PcOrder ==
    <<"start", "getBackupDir", "dumpMkdir", "dumpUser", "dumpPass", "dumpRun",
      "printBackup", "getEncDir", "getKey", "encMkdir", "encRead", "encEncrypt",
      "encWrite", "printEnc", "getRegion", "getBucket", "upload", "exited">>

PcLabels == {PcOrder[i] : i \in 1..Len(PcOrder)}

\* the run p gets on: whatever it was waiting for has returned
Returns(p) ==
    /\ pc[p] # "exited"
    /\ pc' \in [Procs -> PcLabels]
    /\ pc'[p] # pc[p]

SpecReturns == Init /\ [][Next]_vars /\ WF_pc(Returns(1))

(***************************************************************************)
(* C18.                                                                    *)
(***************************************************************************)
PcRank(label) == CHOOSE i \in 1..Len(PcOrder) : PcOrder[i] = label

\* the positions in p's trace of the calls of one step
CallsOf(p, op) == {i \in 1..Len(trace[p]) : trace[p][i].op = op}

\* each of the three steps has run at most once, and in the order dump,
\* encrypt, upload
StepsOnceInOrder ==
    \A p \in Procs :
        /\ Cardinality(CallsOf(p, "mysqldump")) <= 1
        /\ Cardinality(CallsOf(p, "cflib.CompressAndEncrypt")) <= 1
        /\ Cardinality(CallsOf(p, "uploadToS3")) <= 1
        /\ \A e \in CallsOf(p, "cflib.CompressAndEncrypt") :
               \E d \in CallsOf(p, "mysqldump") : d < e
        /\ \A u \in CallsOf(p, "uploadToS3") :
               \E e \in CallsOf(p, "cflib.CompressAndEncrypt") : e < u

\* a step of a run moves it forward in program order
NoBackEdge ==
    \A p \in Procs : pc'[p] # pc[p] => PcRank(pc'[p]) > PcRank(pc[p])

\* C18: the orchestrator is linear: no step of a run moves it backwards, each
\* of the dump, encrypt and upload steps runs at most once and only in that
\* order, so nothing is retried; and, every call returning, every run
\* eventually reaches a terminal state.
C18_LinearAndTerminates ==
    /\ []StepsOnceInOrder
    /\ [][NoBackEdge]_vars
    /\ <>(\A p \in Procs : Exited(p))

\* a live run has gone through the three steps and ended
C18_Witness ==
    /\ Live(1)
    /\ Exited(1)
    /\ CallsOf(1, "mysqldump") # {}
    /\ CallsOf(1, "cflib.CompressAndEncrypt") # {}
    /\ CallsOf(1, "uploadToS3") # {}

(***************************************************************************)
(* C19.                                                                    *)
(***************************************************************************)
\* the ciphertext the primitive makes in run p from the dump run p wrote
OwnCipher(p) == Content("cipher", p, "dump", p)

\* C19 as stated: a live run that has ended with status 0 has uploaded, under
\* its storage key, the ciphertext made in this run from the dump written in
\* this run.  Violated: after an error of the primitive the empty file is
\* uploaded, after a failed write the stale file, and the status is 0.
C19_ExitZeroUploadedOwnCipher ==
    \A p \in Procs :
        (Live(p) /\ exitCode[p] = ExitSuccess) =>
            /\ S3Object(p) \in DOMAIN s3
            /\ s3[S3Object(p)] = OwnCipher(p)

====
